---- MODULE Spec2Model ----
(***************************************************************************)
(* Model of the cloudbbq-homie device session (src/src/bbq.rs): the        *)
(* event loop over the two device streams and the Homie handle (Bbq::run,  *)
(* handle_realtime_data, add_probe, handle_setting_result), the            *)
(* remote-write callback (Bbq::handle_update, set_target) and the Target   *)
(* Store (TargetState) they share; and of the coordinator that discovers   *)
(* the devices and spawns their sessions (src/src/main.rs: main,           *)
(* run_system).                                                            *)
(*                                                                         *)
(* Strings are modelled as sequences of one-character strings so that the  *)
(* prefix stripping and the parsers act on the text as the code does.      *)
(*                                                                         *)
(* Specifications, all from the same initial state:                        *)
(*   Spec            event loop and one update callback at a time          *)
(*   SpecUpdate      the update callback alone, every input of the model   *)
(*   SpecBattery     the setting results alone, every result of the model  *)
(*   SpecLoop        event loop with the device filling both streams       *)
(*   SpecStore       event loop, a remote write and setting results        *)
(*   SpecConcurrent  concurrent callbacks, the Mutex in steps, the device  *)
(*   SpecFleet       main and run_system with the tasks of the sessions    *)
(***************************************************************************)
EXTENDS Integers, Sequences, FiniteSets, TLC

\* ------------------------------------------------------------------ bounds
\* Number of probe slots in a telemetry frame.
NumSlots == 2
\* Number of remote writes the model lets the property tree deliver.
MaxWrites == 3
\* Number of remote writes when they are drawn from every node id, property
\* id and value of the model (SpecUpdate).
MaxUpdates == 2
\* Number of telemetry frames the model lets the device deliver.
MaxFrames == 3
\* Number of setting results the model lets the device deliver.
MaxResults == 2
\* Number of devices discovery finds at most.
MaxDevices == 3
\* Number of invocations of the update callback that run concurrently.
NumCallbacks == 2
\* Number of telemetry frames delivered while callbacks run concurrently.
MaxConcurrentFrames == 2
\* Number of remote writes in a session that also handles setting results.
MaxStoreWrites == 1

\* ------------------------------------------------------- string constants
NODE_ID_SETTINGS == <<"s","e","t","t","i","n","g","s">>
NODE_ID_BATTERY == <<"b","a","t","t","e","r","y">>
NODE_ID_PROBE_PREFIX == <<"p","r","o","b","e">>
PROPERTY_ID_VOLTAGE == <<"v","o","l","t","a","g","e">>
PROPERTY_ID_PERCENTAGE == <<"p","e","r","c","e","n","t","a","g","e">>
PROPERTY_ID_DISPLAY_UNIT == <<"u","n","i","t">>
PROPERTY_ID_ALARM == <<"a","l","a","r","m">>
PROPERTY_ID_TEMPERATURE == <<"t","e","m","p","e","r","a","t","u","r","e">>
PROPERTY_ID_TARGET_TEMPERATURE_MIN == <<"t","a","r","g","e","t","_","m","i","n">>
PROPERTY_ID_TARGET_TEMPERATURE_MAX == <<"t","a","r","g","e","t","_","m","a","x">>
PROPERTY_ID_TARGET_MODE == <<"m","o","d","e">>
DISPLAY_UNIT_CELCIUS == <<"deg","C">>
DISPLAY_UNIT_FAHRENHEIT == <<"deg","F">>
TARGET_MODE_NONE == <<"N","o","n","e">>
TARGET_MODE_SINGLE == <<"M","a","x","i","m","u","m"," ","o","n","l","y">>
TARGET_MODE_RANGE == <<"R","a","n","g","e">>
STR_TRUE == <<"t","r","u","e">>
STR_FALSE == <<"f","a","l","s","e">>

\* --------------------------------------------------------------- options
\* Option<T>: None is the empty tuple, Some(v) the one-element tuple.
None == <<>>
Some(v) == <<v>>
IsSome(o) == Len(o) = 1
IsNone(o) == Len(o) = 0
Unwrap(o) == o[1]

\* --------------------------------------------------------------- parsers
Digits == <<"0","1","2","3","4","5","6","7","8","9">>
IsDigit(c) == \E d \in 1..10 : Digits[d] = c
DigitVal(c) == (CHOOSE d \in 1..10 : Digits[d] = c) - 1
AllDigits(s) == \A i \in 1..Len(s) : IsDigit(s[i])

RECURSIVE DecValue(_)
DecValue(s) ==
    IF Len(s) = 0 THEN 0
    ELSE 10 * DecValue(SubSeq(s, 1, Len(s) - 1)) + DigitVal(s[Len(s)])

\* str::strip_prefix
StripPrefix(s, prefix) ==
    IF Len(s) >= Len(prefix) /\ SubSeq(s, 1, Len(prefix)) = prefix
    THEN Some(SubSeq(s, Len(prefix) + 1, Len(s)))
    ELSE None

\* u8::from_str: an optional '+', then at least one digit, value at most 255.
ParseU8(s) ==
    LET body == IF Len(s) > 0 /\ s[1] = "+" THEN Tail(s) ELSE s
    IN  IF Len(body) > 0 /\ AllDigits(body) /\ DecValue(body) <= 255
        THEN Some(DecValue(body))
        ELSE None

\* Mutant: a text that is no number is read as zero.
ParseF32_DefaultsToZero(s) ==
    LET signed == Len(s) > 0 /\ s[1] \in {"+", "-"}
        body == IF signed THEN Tail(s) ELSE s
    IN  IF Len(body) > 0 /\ AllDigits(body)
        THEN Some(IF signed /\ s[1] = "-" THEN 0 - DecValue(body) ELSE DecValue(body))
        ELSE Some(0)

\* f32::from_str on the decimal integers the model writes: an optional sign
\* and at least one digit.
ParseF32(s) ==
    LET signed == Len(s) > 0 /\ s[1] \in {"+", "-"}
        body == IF signed THEN Tail(s) ELSE s
    IN  IF Len(body) > 0 /\ AllDigits(body)
        THEN Some(IF signed /\ s[1] = "-" THEN 0 - DecValue(body) ELSE DecValue(body))
        ELSE None

\* bool::from_str
ParseBool(s) ==
    IF s = STR_TRUE THEN Some(TRUE)
    ELSE IF s = STR_FALSE THEN Some(FALSE)
    ELSE None

\* TargetMode::from_str
TargetModeFromStr(s) ==
    IF s = TARGET_MODE_NONE THEN Some("None")
    ELSE IF s = TARGET_MODE_SINGLE THEN Some("Single")
    ELSE IF s = TARGET_MODE_RANGE THEN Some("Range")
    ELSE None

\* TargetMode::as_str
TargetModeAsStr(m) ==
    IF m = "None" THEN TARGET_MODE_NONE
    ELSE IF m = "Single" THEN TARGET_MODE_SINGLE
    ELSE TARGET_MODE_RANGE

probe_id_to_index(probe_id) ==
    LET rest == StripPrefix(probe_id, NODE_ID_PROBE_PREFIX)
    IN  IF IsNone(rest) THEN None ELSE ParseU8(Unwrap(rest))

\* Mutant: both unit labels select Celcius.
parse_display_unit_AlwaysCelcius(value) ==
    IF value = DISPLAY_UNIT_CELCIUS THEN Some("Celcius")
    ELSE IF value = DISPLAY_UNIT_FAHRENHEIT THEN Some("Celcius")
    ELSE None

parse_display_unit(value) ==
    IF value = DISPLAY_UNIT_CELCIUS THEN Some("Celcius")
    ELSE IF value = DISPLAY_UNIT_FAHRENHEIT THEN Some("Fahrenheit")
    ELSE None

\* Display of an unsigned integer in decimal
RECURSIVE FormatDec(_)
FormatDec(n) ==
    IF n < 10 THEN <<Digits[n + 1]>>
    ELSE FormatDec(n \div 10) \o <<Digits[(n % 10) + 1]>>

\* format!("{}{}", NODE_ID_PROBE_PREFIX, probe_index)
ProbeNodeId(p) == NODE_ID_PROBE_PREFIX \o FormatDec(p)

\* ------------------------------------------------------------ Target Store
\* Target::default(): TargetMode::None, 0.0, 0.0
DefaultTarget == [mode |-> "None", temperature_min |-> 0, temperature_max |-> 0]

\* TargetState::target: self.targets.entry(probe_index).or_default()
target(ts, probe_index) ==
    IF probe_index \in DOMAIN ts THEN ts
    ELSE [i \in DOMAIN ts \cup {probe_index} |->
            IF i = probe_index THEN DefaultTarget ELSE ts[i]]

\* Mutant: mode Single sends the minimum.
set_target_SingleSendsMin(probe_index, t) ==
    IF t.mode = "None" THEN <<"remove_target", probe_index>>
    ELSE IF t.mode = "Single" THEN <<"set_target_temp", probe_index, t.temperature_min>>
    ELSE <<"set_target_range", probe_index, t.temperature_min, t.temperature_max>>

\* The device command set_target issues for a Target.
set_target(probe_index, t) ==
    IF t.mode = "None" THEN <<"remove_target", probe_index>>
    ELSE IF t.mode = "Single" THEN <<"set_target_temp", probe_index, t.temperature_max>>
    ELSE <<"set_target_range", probe_index, t.temperature_min, t.temperature_max>>

\* ------------------------------------------------------------------ inputs
Temperatures == {23}
Slots == 0..(NumSlots - 1)
\* RealTimeData.probe_temperatures: one optional reading per probe slot
Frames == [1..NumSlots -> {None} \cup {Some(t) : t \in Temperatures}]

NodeIds == {NODE_ID_SETTINGS, NODE_ID_BATTERY, NODE_ID_PROBE_PREFIX}
             \cup {ProbeNodeId(p) : p \in Slots}
PropertyIds == {PROPERTY_ID_DISPLAY_UNIT, PROPERTY_ID_ALARM, PROPERTY_ID_TEMPERATURE,
                PROPERTY_ID_TARGET_TEMPERATURE_MIN, PROPERTY_ID_TARGET_TEMPERATURE_MAX,
                PROPERTY_ID_TARGET_MODE}
Values == {DISPLAY_UNIT_CELCIUS, DISPLAY_UNIT_FAHRENHEIT, STR_TRUE, STR_FALSE,
           <<"1","0">>, <<"2","0">>, <<"a","b","c">>,
           TARGET_MODE_NONE, TARGET_MODE_SINGLE, TARGET_MODE_RANGE}

\* The valid writes to the probes' targets.
TargetWrites ==
    {<<ProbeNodeId(p), PROPERTY_ID_TARGET_MODE, m>> :
        p \in Slots, m \in {TARGET_MODE_NONE, TARGET_MODE_SINGLE, TARGET_MODE_RANGE}}
    \cup {<<ProbeNodeId(p), PROPERTY_ID_TARGET_TEMPERATURE_MIN, <<"1","0">> >> : p \in Slots}
    \cup {<<ProbeNodeId(p), PROPERTY_ID_TARGET_TEMPERATURE_MAX, <<"2","0">> >> : p \in Slots}

\* ------------------------------------------------------------------- state
VARIABLES
    status,     \* Bbq::run: "running", "done" (Ok) or "error" (Err)
    targets,    \* TargetState.targets: probe index -> Target
    nodes,      \* node ids present in the Homie device
    mpc,        \* position of the event loop of Bbq::run
    data,       \* the telemetry frame being processed
    slot,       \* 0-based index of the probe slot being processed
    snap,       \* add_probe: the Target cloned out of the store
    ops,        \* operations performed for the current (or last) frame
    nodes0,     \* the node ids present when the current frame was received
    lastFrame,  \* the last frame that was processed completely (Option)
    nFrames,    \* number of frames received
    removed,    \* history: the probe node ids removed so far
    wpc,        \* position of the update callback: "idle", "cmd" or "done"
    wnode,      \* handle_update: node_id
    wprop,      \* handle_update: property_id
    wvalue,     \* handle_update: value
    wsnap,      \* handle_update: the Target cloned out of the store
    wcmds,      \* device commands issued by the current (or last) write
    wecho,      \* the value handle_update returned (Option)
    wres,       \* outcome of the write's device command: "none", "ok", "err"
    nWrites,    \* number of writes received
    repeat,     \* history: the current write repeats the one before it
    pcmds,      \* history: when repeat, the commands of the write before
    rtQueue,    \* real_time_data: the frames the stream holds, oldest first
    srQueue,    \* setting_results: the results the stream holds, oldest first
    rtClosed,   \* real_time_data: the device will send no more frames
    srClosed,   \* setting_results: the device will send no more results
    result,     \* handle_setting_result: the result being handled
    sops,       \* operations performed for the current (or last) result
    rtSent,     \* history: every frame the device sent, in order
    rtTaken,    \* history: every frame the event loop took, in order
    nResults,   \* number of setting results the device sent
    homie,      \* homie_handle: "live" or "resolved"
    fpc,        \* position of run_system, "ok" / "err" once it has returned
    devices,    \* run_system: the number of devices find_devices returned
    fdev,       \* run_system: the device the for loop is at (from 1)
    sess,       \* the task of each device's session
    ferr,       \* the error run_system returned (Option)
    connected,  \* history: the devices BBQ::connect was called for
    spawned,    \* history: the devices a session was spawned for, in order
    proc,       \* main: "running", or "exit_err" once it has returned
    lock,       \* target_state: the holder of the Mutex, <<>> when it is free
    cb,         \* concurrent invocations of the update callback
    dev,        \* the device: the last target command it carried out, per probe
    updOrder,   \* history: the invocations in the order they updated the store
    cmdOrder    \* history: the invocations in the order the device took their command

mvars == <<status, nodes, mpc, data, slot, snap, ops, nodes0, lastFrame, nFrames,
           removed>>
wvars == <<wpc, wnode, wprop, wvalue, wsnap, wcmds, wecho, wres, nWrites, repeat,
           pcmds>>
svars == <<rtQueue, srQueue, rtClosed, srClosed, result, sops, rtSent, rtTaken,
           nResults>>
fvars == <<fpc, devices, fdev, sess, ferr, connected, spawned, proc>>
cvars == <<lock, cb, dev, updOrder, cmdOrder>>
ovars == <<fvars, cvars>>
xvars == <<svars, homie, ovars>>
vars == <<status, targets, nodes, mpc, data, slot, snap, ops, nodes0, lastFrame,
          nFrames, removed, wpc, wnode, wprop, wvalue, wsnap, wcmds, wecho, wres,
          nWrites, repeat, pcmds, xvars>>

\* The state when the event loop of Bbq::run is entered: the battery and
\* settings nodes exist, the Target Store is empty.
Init ==
    /\ status = "running"
    /\ targets = <<>>
    /\ nodes = {NODE_ID_BATTERY, NODE_ID_SETTINGS}
    /\ mpc = "select"
    /\ data = <<>>
    /\ slot = 0
    /\ snap = DefaultTarget
    /\ ops = <<>>
    /\ nodes0 = {NODE_ID_BATTERY, NODE_ID_SETTINGS}
    /\ lastFrame = None
    /\ nFrames = 0
    /\ removed = {}
    /\ wpc = "idle"
    /\ wnode = <<>>
    /\ wprop = <<>>
    /\ wvalue = <<>>
    /\ wsnap = DefaultTarget
    /\ wcmds = <<>>
    /\ wecho = None
    /\ wres = "none"
    /\ nWrites = 0
    /\ repeat = FALSE
    /\ pcmds = <<>>
    /\ rtQueue = <<>>
    /\ srQueue = <<>>
    /\ rtClosed = FALSE
    /\ srClosed = FALSE
    /\ result = <<>>
    /\ sops = <<>>
    /\ rtSent = <<>>
    /\ rtTaken = <<>>
    /\ nResults = 0
    /\ homie = "live"
    /\ fpc = "discovery"
    /\ devices = 0
    /\ fdev = 1
    /\ sess = [d \in 1..MaxDevices |-> "none"]
    /\ ferr = None
    /\ connected = {}
    /\ spawned = <<>>
    /\ proc = "running"
    /\ lock = <<>>
    /\ cb = [i \in 1..NumCallbacks |->
                [pc |-> "idle", node_id |-> <<>>, property_id |-> <<>>,
                 value |-> <<>>, snap |-> DefaultTarget, res |-> "none",
                 seen |-> 0]]
    /\ dev = [p \in Slots |-> <<>>]
    /\ updOrder = <<>>
    /\ cmdOrder = <<>>

\* ------------------------------------------------- Bbq::handle_update
IsUnitWrite(node_id, property_id) ==
    node_id = NODE_ID_SETTINGS /\ property_id = PROPERTY_ID_DISPLAY_UNIT
IsAlarmWrite(node_id, property_id) ==
    node_id = NODE_ID_SETTINGS /\ property_id = PROPERTY_ID_ALARM
IsProbeWrite(node_id, property_id) ==
    /\ ~IsUnitWrite(node_id, property_id)
    /\ ~IsAlarmWrite(node_id, property_id)
    /\ IsSome(probe_id_to_index(node_id))

\* The alarm write is forwarded: the value parses as a bool and is false.
\* Mutant: any bool is forwarded.
AlarmSilenced_AnyBool(value) == IsSome(ParseBool(value))

AlarmSilenced(value) == IsSome(ParseBool(value)) /\ ~Unwrap(ParseBool(value))

\* Mutant: writing mode None resets the two temperatures.
UpdatedTarget_NoneResets(t, property_id, value) ==
    IF property_id = PROPERTY_ID_TARGET_TEMPERATURE_MIN THEN
        IF IsSome(ParseF32(value))
        THEN Some([t EXCEPT !.temperature_min = Unwrap(ParseF32(value))])
        ELSE None
    ELSE IF property_id = PROPERTY_ID_TARGET_TEMPERATURE_MAX THEN
        IF IsSome(ParseF32(value))
        THEN Some([t EXCEPT !.temperature_max = Unwrap(ParseF32(value))])
        ELSE None
    ELSE IF property_id = PROPERTY_ID_TARGET_MODE THEN
        IF IsSome(TargetModeFromStr(value))
        THEN IF Unwrap(TargetModeFromStr(value)) = "None"
             THEN Some(DefaultTarget)
             ELSE Some([t EXCEPT !.mode = Unwrap(TargetModeFromStr(value))])
        ELSE None
    ELSE None

\* Mutant: an unknown property id is accepted and leaves the entry as it is.
UpdatedTarget_UnknownAccepted(t, property_id, value) ==
    IF property_id = PROPERTY_ID_TARGET_TEMPERATURE_MIN THEN
        IF IsSome(ParseF32(value))
        THEN Some([t EXCEPT !.temperature_min = Unwrap(ParseF32(value))])
        ELSE None
    ELSE IF property_id = PROPERTY_ID_TARGET_TEMPERATURE_MAX THEN
        IF IsSome(ParseF32(value))
        THEN Some([t EXCEPT !.temperature_max = Unwrap(ParseF32(value))])
        ELSE None
    ELSE IF property_id = PROPERTY_ID_TARGET_MODE THEN
        IF IsSome(TargetModeFromStr(value))
        THEN Some([t EXCEPT !.mode = Unwrap(TargetModeFromStr(value))])
        ELSE None
    ELSE Some(t)

\* Mutant: a written minimum is added to the stored one.
UpdatedTarget_Accumulates(t, property_id, value) ==
    IF property_id = PROPERTY_ID_TARGET_TEMPERATURE_MIN THEN
        IF IsSome(ParseF32(value))
        THEN Some([t EXCEPT !.temperature_min = (@ + Unwrap(ParseF32(value))) % 40])
        ELSE None
    ELSE IF property_id = PROPERTY_ID_TARGET_TEMPERATURE_MAX THEN
        IF IsSome(ParseF32(value))
        THEN Some([t EXCEPT !.temperature_max = Unwrap(ParseF32(value))])
        ELSE None
    ELSE IF property_id = PROPERTY_ID_TARGET_MODE THEN
        IF IsSome(TargetModeFromStr(value))
        THEN Some([t EXCEPT !.mode = Unwrap(TargetModeFromStr(value))])
        ELSE None
    ELSE None

\* The store entry after the match on property_id; None when the match
\* returns early (a value that does not parse, an unknown property).
UpdatedTarget(t, property_id, value) ==
    IF property_id = PROPERTY_ID_TARGET_TEMPERATURE_MIN THEN
        IF IsSome(ParseF32(value))
        THEN Some([t EXCEPT !.temperature_min = Unwrap(ParseF32(value))])
        ELSE None
    ELSE IF property_id = PROPERTY_ID_TARGET_TEMPERATURE_MAX THEN
        IF IsSome(ParseF32(value))
        THEN Some([t EXCEPT !.temperature_max = Unwrap(ParseF32(value))])
        ELSE None
    ELSE IF property_id = PROPERTY_ID_TARGET_MODE THEN
        IF IsSome(TargetModeFromStr(value))
        THEN Some([t EXCEPT !.mode = Unwrap(TargetModeFromStr(value))])
        ELSE None
    ELSE None

\* Mutant: a rejected write to a probe resets the probe's entry.
UpdateEntry_RejectResets(ts, node_id, property_id, value) ==
    IF IsUnitWrite(node_id, property_id) THEN
        IF IsSome(parse_display_unit(value))
        THEN <<"cmd", ts, DefaultTarget>> ELSE <<"done", ts, DefaultTarget>>
    ELSE IF IsAlarmWrite(node_id, property_id) THEN
        IF AlarmSilenced(value)
        THEN <<"cmd", ts, DefaultTarget>> ELSE <<"done", ts, DefaultTarget>>
    ELSE IF IsSome(probe_id_to_index(node_id)) THEN
        LET probe_index == Unwrap(probe_id_to_index(node_id))
            state == target(ts, probe_index)
            updated == UpdatedTarget(state[probe_index], property_id, value)
        IN  IF IsSome(updated)
            THEN <<"cmd", [state EXCEPT ![probe_index] = Unwrap(updated)], Unwrap(updated)>>
            ELSE <<"done", [state EXCEPT ![probe_index] = DefaultTarget], DefaultTarget>>
    ELSE <<"done", ts, DefaultTarget>>

\* handle_update up to its first await or its early return.
\* Returns <<pc, targets, snapshot>>.
UpdateEntry(ts, node_id, property_id, value) ==
    IF IsUnitWrite(node_id, property_id) THEN
        IF IsSome(parse_display_unit(value))
        THEN <<"cmd", ts, DefaultTarget>> ELSE <<"done", ts, DefaultTarget>>
    ELSE IF IsAlarmWrite(node_id, property_id) THEN
        IF AlarmSilenced(value)
        THEN <<"cmd", ts, DefaultTarget>> ELSE <<"done", ts, DefaultTarget>>
    ELSE IF IsSome(probe_id_to_index(node_id)) THEN
        LET probe_index == Unwrap(probe_id_to_index(node_id))
            state == target(ts, probe_index)
            updated == UpdatedTarget(state[probe_index], property_id, value)
        IN  IF IsSome(updated)
            THEN <<"cmd", [state EXCEPT ![probe_index] = Unwrap(updated)], Unwrap(updated)>>
            ELSE <<"done", state, DefaultTarget>>
    ELSE <<"done", ts, DefaultTarget>>

\* The device command handle_update awaits after a valid write.
UpdateCommand(node_id, property_id, value, t) ==
    IF IsUnitWrite(node_id, property_id)
    THEN <<"set_temperature_unit", Unwrap(parse_display_unit(value))>>
    ELSE IF IsAlarmWrite(node_id, property_id) THEN <<"silence_alarm">>
    ELSE set_target(Unwrap(probe_id_to_index(node_id)), t)

\* The update callback is invoked with a remote write.
HandleUpdate(node_id, property_id, value) ==
    /\ status = "running"
    /\ wpc \in {"idle", "done"}
    /\ LET r == UpdateEntry(targets, node_id, property_id, value)
       IN  /\ wpc' = r[1]
           /\ targets' = r[2]
           /\ wsnap' = r[3]
    /\ wnode' = node_id
    /\ wprop' = property_id
    /\ wvalue' = value
    /\ wcmds' = <<>>
    /\ wecho' = None
    /\ wres' = "none"
    /\ nWrites' = nWrites + 1
    /\ repeat' = (wpc = "done" /\ <<node_id, property_id, value>> = <<wnode, wprop, wvalue>>)
    /\ pcmds' = IF repeat' THEN wcmds ELSE <<>>
    /\ UNCHANGED <<mvars, xvars>>

\* A write to a probe's target arrives while the session reconciles telemetry.
TargetWrite ==
    /\ nWrites < MaxWrites
    /\ \E w \in TargetWrites : HandleUpdate(w[1], w[2], w[3])

\* A write to any node id and property id with any value arrives.
AnyWrite ==
    /\ nWrites < MaxUpdates
    /\ \E node_id \in NodeIds, property_id \in PropertyIds, value \in Values :
            HandleUpdate(node_id, property_id, value)

\* The device command succeeds: Some(value)
UpdateCommandOk ==
    /\ wpc = "cmd"
    /\ wcmds' = <<UpdateCommand(wnode, wprop, wvalue, wsnap)>>
    /\ wecho' = Some(wvalue)
    /\ wres' = "ok"
    /\ wpc' = "done"
    /\ UNCHANGED <<targets, wnode, wprop, wvalue, wsnap, nWrites, repeat, pcmds>>
    /\ UNCHANGED <<mvars, xvars>>

\* Mutant: the value is returned although the command failed.
UpdateCommandErr_Echoes ==
    /\ wpc = "cmd"
    /\ wcmds' = <<UpdateCommand(wnode, wprop, wvalue, wsnap)>>
    /\ wecho' = Some(wvalue)
    /\ wres' = "err"
    /\ wpc' = "done"
    /\ UNCHANGED <<targets, wnode, wprop, wvalue, wsnap, nWrites, repeat, pcmds>>
    /\ UNCHANGED <<mvars, xvars>>

\* Mutant: a failed command resets the probe's entry in the store.
UpdateCommandErr_RollsBack ==
    /\ wpc = "cmd"
    /\ wcmds' = <<UpdateCommand(wnode, wprop, wvalue, wsnap)>>
    /\ wecho' = None
    /\ wres' = "err"
    /\ wpc' = "done"
    /\ targets' = IF IsProbeWrite(wnode, wprop)
                  THEN [targets EXCEPT ![Unwrap(probe_id_to_index(wnode))] = DefaultTarget]
                  ELSE targets
    /\ UNCHANGED <<wnode, wprop, wvalue, wsnap, nWrites, repeat, pcmds>>
    /\ UNCHANGED <<mvars, xvars>>

\* The device command fails: the error is logged, None
UpdateCommandErr ==
    /\ wpc = "cmd"
    /\ wcmds' = <<UpdateCommand(wnode, wprop, wvalue, wsnap)>>
    /\ wecho' = None
    /\ wres' = "err"
    /\ wpc' = "done"
    /\ UNCHANGED <<targets, wnode, wprop, wvalue, wsnap, nWrites, repeat, pcmds>>
    /\ UNCHANGED <<mvars, xvars>>

\* ------------------------------------------- Bbq::handle_realtime_data
Reading == data[slot + 1]
NodeId == ProbeNodeId(slot)
Exists == NodeId \in nodes

\* The for loop moves to the next probe slot, or the frame is finished and
\* the event loop selects again.
Advance ==
    IF slot + 1 < Len(data)
    THEN /\ slot' = slot + 1
         /\ mpc' = "slot"
         /\ lastFrame' = lastFrame
    ELSE /\ slot' = 0
         /\ mpc' = "select"
         /\ lastFrame' = Some(data)

\* The device sends a frame and real_time_data.select_next_some() yields it
\* at once: SendFrame and TakeFrame in one step, for a stream that never
\* holds more than the frame being taken.
ReceiveFrame(f) ==
    /\ status = "running"
    /\ mpc = "select"
    /\ nFrames < MaxFrames
    /\ data' = f
    /\ slot' = 0
    /\ mpc' = "slot"
    /\ ops' = <<>>
    /\ nodes0' = nodes
    /\ nFrames' = nFrames + 1
    /\ UNCHANGED <<status, targets, nodes, snap, lastFrame, removed>>
    /\ UNCHANGED <<wvars, xvars>>

\* The device puts a frame on the real_time_data stream.
SendFrame(f) ==
    /\ status = "running"
    /\ ~rtClosed
    /\ nFrames < MaxFrames
    /\ rtQueue' = Append(rtQueue, f)
    /\ rtSent' = Append(rtSent, f)
    /\ nFrames' = nFrames + 1
    /\ UNCHANGED <<srQueue, rtClosed, srClosed, result, sops, rtTaken, nResults>>
    /\ UNCHANGED <<status, targets, nodes, mpc, data, slot, snap, ops, nodes0, lastFrame, removed>>
    /\ UNCHANGED <<wvars, homie, ovars>>

\* Mutant: the newest frame of the stream is taken and the older ones are
\* dropped.
TakeFrame_Coalesces ==
    /\ status = "running"
    /\ mpc = "select"
    /\ rtQueue # <<>>
    /\ data' = rtQueue[Len(rtQueue)]
    /\ rtQueue' = <<>>
    /\ rtTaken' = Append(rtTaken, data')
    /\ slot' = 0
    /\ mpc' = "slot"
    /\ ops' = <<>>
    /\ nodes0' = nodes
    /\ UNCHANGED <<srQueue, rtClosed, srClosed, result, sops, rtSent, nResults>>
    /\ UNCHANGED <<status, targets, nodes, snap, lastFrame, nFrames, removed>>
    /\ UNCHANGED <<wvars, homie, ovars>>

\* real_time_data.select_next_some() yields the oldest frame of the stream.
TakeFrame ==
    /\ status = "running"
    /\ mpc = "select"
    /\ rtQueue # <<>>
    /\ data' = Head(rtQueue)
    /\ rtQueue' = Tail(rtQueue)
    /\ rtTaken' = Append(rtTaken, data')
    /\ slot' = 0
    /\ mpc' = "slot"
    /\ ops' = <<>>
    /\ nodes0' = nodes
    /\ UNCHANGED <<srQueue, rtClosed, srClosed, result, sops, rtSent, nResults>>
    /\ UNCHANGED <<status, targets, nodes, snap, lastFrame, nFrames, removed>>
    /\ UNCHANGED <<wvars, homie, ovars>>

\* Mutant: the node is added and the target is not restored.
AddNode_NoRestore ==
    /\ status = "running"
    /\ mpc = "slot"
    /\ IsSome(Reading) /\ ~Exists
    /\ nodes' = nodes \cup {NodeId}
    /\ ops' = Append(ops, <<"add_node", NodeId>>)
    /\ mpc' = "pub_temp"
    /\ UNCHANGED <<status, targets, data, slot, snap, nodes0, lastFrame, nFrames, removed>>
    /\ UNCHANGED <<wvars, xvars>>

\* A reading for a probe without a node: add_probe adds the node.
AddNode ==
    /\ status = "running"
    /\ mpc = "slot"
    /\ IsSome(Reading) /\ ~Exists
    /\ nodes' = nodes \cup {NodeId}
    /\ ops' = Append(ops, <<"add_node", NodeId>>)
    /\ mpc' = "restore"
    /\ UNCHANGED <<status, targets, data, slot, snap, nodes0, lastFrame, nFrames, removed>>
    /\ UNCHANGED <<wvars, xvars>>

\* Mutant: the restore starts from a default Target.
RestoreTarget_Default ==
    /\ status = "running"
    /\ mpc = "restore"
    /\ targets' = target(targets, slot)
    /\ snap' = DefaultTarget
    /\ mpc' = "set_target"
    /\ UNCHANGED <<status, nodes, data, slot, ops, nodes0, lastFrame, nFrames, removed>>
    /\ UNCHANGED <<wvars, xvars>>

\* add_probe clones the probe's Target out of the locked store.
RestoreTarget ==
    /\ status = "running"
    /\ mpc = "restore"
    /\ targets' = target(targets, slot)
    /\ snap' = targets'[slot]
    /\ mpc' = "set_target"
    /\ UNCHANGED <<status, nodes, data, slot, ops, nodes0, lastFrame, nFrames, removed>>
    /\ UNCHANGED <<wvars, xvars>>

\* set_target(&self.device, probe_index, &target) succeeds.
SetTargetOk ==
    /\ status = "running"
    /\ mpc = "set_target"
    /\ ops' = Append(ops, <<"device", set_target(slot, snap)>>)
    /\ mpc' = "pub_mode"
    /\ UNCHANGED <<status, targets, nodes, data, slot, snap, nodes0, lastFrame, nFrames, removed>>
    /\ UNCHANGED <<wvars, xvars>>

\* Mutant: the failure of set_target is logged and add_probe goes on to the
\* temperature.
SetTargetErr_Logged ==
    /\ status = "running"
    /\ mpc = "set_target"
    /\ ops' = Append(ops, <<"device", set_target(slot, snap)>>)
    /\ mpc' = "pub_temp"
    /\ UNCHANGED <<status, targets, nodes, data, slot, snap, nodes0, lastFrame, nFrames, removed>>
    /\ UNCHANGED <<wvars, xvars>>

\* set_target fails: the error leaves handle_realtime_data and run.
SetTargetErr ==
    /\ status = "running"
    /\ mpc = "set_target"
    /\ ops' = Append(ops, <<"device", set_target(slot, snap)>>)
    /\ status' = "error"
    /\ UNCHANGED <<targets, nodes, mpc, data, slot, snap, nodes0, lastFrame, nFrames, removed>>
    /\ UNCHANGED <<wvars, xvars>>

PublishTarget(pc, next, property_id, value) ==
    /\ status = "running"
    /\ mpc = pc
    /\ ops' = Append(ops, <<"publish", NodeId, property_id, value>>)
    /\ mpc' = next
    /\ UNCHANGED <<status, targets, nodes, data, slot, snap, nodes0, lastFrame, nFrames, removed>>
    /\ UNCHANGED <<wvars, xvars>>

PublishMode ==
    PublishTarget("pub_mode", "pub_min", PROPERTY_ID_TARGET_MODE, TargetModeAsStr(snap.mode))
PublishMin ==
    PublishTarget("pub_min", "pub_max", PROPERTY_ID_TARGET_TEMPERATURE_MIN, snap.temperature_min)
PublishMax ==
    PublishTarget("pub_max", "pub_temp", PROPERTY_ID_TARGET_TEMPERATURE_MAX, snap.temperature_max)

\* The temperature of a probe whose node exists or was just added.
PublishTemperature ==
    /\ status = "running"
    /\ \/ mpc = "pub_temp"
       \/ mpc = "slot" /\ IsSome(Reading) /\ Exists
    /\ ops' = Append(ops, <<"publish", NodeId, PROPERTY_ID_TEMPERATURE, Unwrap(Reading)>>)
    /\ Advance
    /\ UNCHANGED <<status, targets, nodes, data, snap, nodes0, nFrames, removed>>
    /\ UNCHANGED <<wvars, xvars>>

\* Mutant: the Target Store entry of the probe goes with its node.
RemoveNode_DropsTarget ==
    /\ status = "running"
    /\ mpc = "slot"
    /\ IsNone(Reading) /\ Exists
    /\ nodes' = nodes \ {NodeId}
    /\ targets' = [i \in DOMAIN targets \ {slot} |-> targets[i]]
    /\ ops' = Append(ops, <<"remove_node", NodeId>>)
    /\ removed' = removed \cup {NodeId}
    /\ Advance
    /\ UNCHANGED <<status, data, snap, nodes0, nFrames>>
    /\ UNCHANGED <<wvars, xvars>>

\* Mutant: the node of a probe without a reading is kept.
RemoveNode_KeepsNode ==
    /\ status = "running"
    /\ mpc = "slot"
    /\ IsNone(Reading) /\ Exists
    /\ nodes' = nodes
    /\ ops' = Append(ops, <<"remove_node", NodeId>>)
    /\ removed' = removed \cup {NodeId}
    /\ Advance
    /\ UNCHANGED <<status, targets, data, snap, nodes0, nFrames>>
    /\ UNCHANGED <<wvars, xvars>>

\* No reading for a probe with a node: the node is removed.
RemoveNode ==
    /\ status = "running"
    /\ mpc = "slot"
    /\ IsNone(Reading) /\ Exists
    /\ nodes' = nodes \ {NodeId}
    /\ ops' = Append(ops, <<"remove_node", NodeId>>)
    /\ removed' = removed \cup {NodeId}
    /\ Advance
    /\ UNCHANGED <<status, targets, data, snap, nodes0, nFrames>>
    /\ UNCHANGED <<wvars, xvars>>

\* No reading and no node: nothing to do.
SkipSlot ==
    /\ status = "running"
    /\ mpc = "slot"
    /\ IsNone(Reading) /\ ~Exists
    /\ Advance
    /\ UNCHANGED <<status, targets, nodes, data, snap, ops, nodes0, nFrames, removed>>
    /\ UNCHANGED <<wvars, xvars>>

\* ------------------------------------------- Bbq::handle_setting_result
\* Battery voltages (u16) the device reports in the model, the largest one
\* included: a u16 times 100 is below 2^32, so the u32 product never wraps.
Voltages == {0, 1, 310, 399, 400, 65535}

\* SettingResult: the battery level, the silence button, any other variant.
BatteryLevel(current_voltage, max_voltage) ==
    <<"BatteryLevel", current_voltage, max_voltage>>
SilencePressed == <<"SilencePressed">>
OtherResult == <<"Other">>
SettingResults ==
    {BatteryLevel(c, m) : c \in Voltages, m \in Voltages}
        \cup {SilencePressed, OtherResult}
IsBatteryLevel(r) == r[1] = "BatteryLevel"

\* Mutant: the percentage is rounded to the nearest integer.
Percentage_Rounds(current_voltage, max_voltage) ==
    (current_voltage * 100 + max_voltage \div 2) \div max_voltage

\* current_voltage as u32 * 100 / max_voltage as u32, for max_voltage > 0
Percentage(current_voltage, max_voltage) ==
    (current_voltage * 100) \div max_voltage

\* The device puts a setting result on the setting_results stream.
SendResult(r) ==
    /\ status = "running"
    /\ ~srClosed
    /\ srQueue' = Append(srQueue, r)
    /\ nResults' = nResults + 1
    /\ UNCHANGED <<rtQueue, rtClosed, srClosed, result, sops, rtSent, rtTaken>>
    /\ UNCHANGED <<targets, mvars, wvars, homie, ovars>>

\* The device reports any of the setting results of the model.
AnyResult ==
    /\ nResults < MaxResults
    /\ \E r \in SettingResults : SendResult(r)

\* The device reports its battery level or the press of its silence button.
LoopResults == {BatteryLevel(310, 400), SilencePressed}
SessionResult ==
    /\ nResults < MaxResults
    /\ \E r \in LoopResults : SendResult(r)

\* setting_results.select_next_some() yields a result and
\* handle_setting_result runs up to its first await: the division panics
\* when max_voltage is zero.
TakeResult ==
    /\ status = "running"
    /\ mpc = "select"
    /\ srQueue # <<>>
    /\ result' = Head(srQueue)
    /\ srQueue' = Tail(srQueue)
    /\ sops' = <<>>
    /\ IF IsBatteryLevel(result') THEN
           IF result'[3] = 0
           THEN status' = "panic" /\ mpc' = mpc
           ELSE status' = status /\ mpc' = "pub_voltage"
       ELSE IF result' = SilencePressed
       THEN status' = status /\ mpc' = "pub_alarm"
       ELSE status' = status /\ mpc' = "select"
    /\ UNCHANGED <<rtQueue, rtClosed, srClosed, rtSent, rtTaken, nResults>>
    /\ UNCHANGED <<targets, nodes, data, slot, snap, ops, nodes0, lastFrame, nFrames, removed>>
    /\ UNCHANGED <<wvars, homie, ovars>>

PublishResult(pc, next, op) ==
    /\ status = "running"
    /\ mpc = pc
    /\ sops' = Append(sops, op)
    /\ mpc' = next
    /\ UNCHANGED <<rtQueue, srQueue, rtClosed, srClosed, result, rtSent, rtTaken, nResults>>
    /\ UNCHANGED <<status, targets, nodes, data, slot, snap, ops, nodes0, lastFrame, nFrames, removed>>
    /\ UNCHANGED <<wvars, homie, ovars>>

PublishVoltage ==
    PublishResult("pub_voltage", "pub_percentage",
        <<"publish", NODE_ID_BATTERY, PROPERTY_ID_VOLTAGE, result[2]>>)
PublishPercentage ==
    PublishResult("pub_percentage", "select",
        <<"publish", NODE_ID_BATTERY, PROPERTY_ID_PERCENTAGE,
          Percentage(result[2], result[3])>>)
PublishAlarm ==
    PublishResult("pub_alarm", "select",
        <<"publish_nonretained", NODE_ID_SETTINGS, PROPERTY_ID_ALARM, FALSE>>)

\* An awaited Homie operation (add_node, publish_value, remove_node) fails:
\* the ? operator leaves handle_realtime_data and run with the error.
HomieOpErr ==
    /\ status = "running"
    /\ \/ mpc \in {"pub_mode", "pub_min", "pub_max", "pub_temp"}
       \/ mpc \in {"pub_voltage", "pub_percentage", "pub_alarm"}
       \/ mpc = "slot" /\ (IsSome(Reading) \/ Exists)
    /\ status' = "error"
    /\ UNCHANGED <<targets, nodes, mpc, data, slot, snap, ops, nodes0, lastFrame, nFrames, removed>>
    /\ UNCHANGED <<wvars, xvars>>

\* ------------------------------------------------------------- Bbq::run
\* A fused stream is terminated once it has yielded its last item: select!
\* polls it no more.
RealTimeTerminated == rtClosed /\ rtQueue = <<>>
SettingResultsTerminated == srClosed /\ srQueue = <<>>

\* The device ends the real_time_data stream.
RealTimeEnds ==
    /\ status = "running"
    /\ ~rtClosed
    /\ rtClosed' = TRUE
    /\ UNCHANGED <<rtQueue, srQueue, srClosed, result, sops, rtSent, rtTaken, nResults>>
    /\ UNCHANGED <<targets, mvars, wvars, homie, ovars>>

\* The device ends the setting_results stream.
SettingResultsEnd ==
    /\ status = "running"
    /\ ~srClosed
    /\ srClosed' = TRUE
    /\ UNCHANGED <<rtQueue, srQueue, rtClosed, result, sops, rtSent, rtTaken, nResults>>
    /\ UNCHANGED <<targets, mvars, wvars, homie, ovars>>

\* select!: the Homie connection's handle resolves and run returns its
\* result as the session's error.
HomieTerminated ==
    /\ status = "running"
    /\ mpc = "select"
    /\ homie = "live"
    /\ homie' = "resolved"
    /\ status' = "error"
    /\ UNCHANGED <<targets, nodes, mpc, data, slot, snap, ops, nodes0, lastFrame, nFrames, removed>>
    /\ UNCHANGED <<wvars, svars, ovars>>

\* select!: complete => break, taken when every future of the select is
\* terminated: both streams and the Homie handle. The handle is terminated
\* only once it has resolved, and the branch that takes its result returns
\* from run, so no action of the model enables this one.
StreamsComplete ==
    /\ status = "running"
    /\ mpc = "select"
    /\ RealTimeTerminated
    /\ SettingResultsTerminated
    /\ homie = "resolved"
    /\ status' = "done"
    /\ UNCHANGED <<targets, nodes, mpc, data, slot, snap, ops, nodes0, lastFrame, nFrames, removed>>
    /\ UNCHANGED <<wvars, xvars>>

\* ------------------------------- concurrent invocations of handle_update
\* The session with the Mutex of the Target Store taken and released in
\* steps of their own, several invocations of the update callback at once,
\* and the device's last target command per probe.
Callbacks == 1..NumCallbacks

\* Writes to the target of the first probe: the valid ones and one whose
\* value does not parse.
ConcurrentWrites ==
    {w \in TargetWrites : w[1] = ProbeNodeId(0)}
        \cup {<<ProbeNodeId(0), PROPERTY_ID_TARGET_TEMPERATURE_MIN, <<"a","b","c">> >>}

CallbackVarsUnchanged ==
    /\ UNCHANGED <<mvars, wvars, svars, homie, fvars>>

\* handle_update is invoked for a probe node and takes the lock:
\* target_state.lock().unwrap()
CallbackLock(i, node_id, property_id, value) ==
    /\ status = "running"
    /\ cb[i].pc = "idle"
    /\ ~IsUnitWrite(node_id, property_id)
    /\ ~IsAlarmWrite(node_id, property_id)
    /\ IsSome(probe_id_to_index(node_id))
    /\ lock = <<>>
    /\ lock' = <<"cb", i>>
    /\ cb' = [cb EXCEPT ![i] = [pc |-> "locked", node_id |-> node_id,
                                property_id |-> property_id, value |-> value,
                                snap |-> DefaultTarget, res |-> "none",
                                seen |-> 0]]
    /\ UNCHANGED <<targets, dev, updOrder, cmdOrder>>
    /\ CallbackVarsUnchanged

ConcurrentWrite ==
    \E i \in Callbacks, w \in ConcurrentWrites : CallbackLock(i, w[1], w[2], w[3])

\* Mutant: the guard of the lock lives until handle_update returns.
CallbackUpdate_KeepsLock(i) ==
    /\ cb[i].pc = "locked"
    /\ lock = <<"cb", i>>
    /\ LET r == UpdateEntry(targets, cb[i].node_id, cb[i].property_id, cb[i].value)
       IN  /\ targets' = r[2]
           /\ cb' = [cb EXCEPT ![i].pc = r[1], ![i].snap = r[3]]
           /\ updOrder' = IF r[1] = "cmd" THEN Append(updOrder, i) ELSE updOrder
    /\ lock' = IF cb'[i].pc = "cmd" THEN lock ELSE <<>>
    /\ UNCHANGED <<dev, cmdOrder>>
    /\ CallbackVarsUnchanged

\* Under the lock the entry is updated and cloned, or the match returns
\* early; the guard is dropped at the end of the block either way.
CallbackUpdate(i) ==
    /\ cb[i].pc = "locked"
    /\ lock = <<"cb", i>>
    /\ LET r == UpdateEntry(targets, cb[i].node_id, cb[i].property_id, cb[i].value)
       IN  /\ targets' = r[2]
           /\ cb' = [cb EXCEPT ![i].pc = r[1], ![i].snap = r[3]]
           /\ updOrder' = IF r[1] = "cmd" THEN Append(updOrder, i) ELSE updOrder
    /\ lock' = <<>>
    /\ UNCHANGED <<dev, cmdOrder>>
    /\ CallbackVarsUnchanged

CallbackProbe(i) == Unwrap(probe_id_to_index(cb[i].node_id))

\* The publications of a property on a node that the event loop has made,
\* as positions in ops.
Published(node_id, property_id) ==
    {k \in 1..Len(ops) : /\ ops[k][1] = "publish"
                         /\ ops[k][2] = node_id
                         /\ ops[k][3] = property_id}

\* set_target(&device, probe_index, &target) succeeds: the device has taken
\* the command built from the clone, and the callback returns Some(value), the
\* value to publish for the property. seen counts the publications of that
\* property the event loop had made before.
CallbackCommandOk(i) ==
    /\ cb[i].pc = "cmd"
    /\ dev' = [dev EXCEPT ![CallbackProbe(i)] = set_target(CallbackProbe(i), cb[i].snap)]
    /\ cmdOrder' = Append(cmdOrder, i)
    /\ cb' = [cb EXCEPT ![i].pc = "done", ![i].res = "ok",
                         ![i].seen = Cardinality(Published(cb[i].node_id, cb[i].property_id))]
    /\ UNCHANGED <<targets, lock, updOrder>>
    /\ CallbackVarsUnchanged

\* set_target fails: the error is logged.
CallbackCommandErr(i) ==
    /\ cb[i].pc = "cmd"
    /\ cb' = [cb EXCEPT ![i].pc = "done", ![i].res = "err"]
    /\ UNCHANGED <<targets, lock, dev, updOrder, cmdOrder>>
    /\ CallbackVarsUnchanged

\* A frame arrives while callbacks run.
ConcurrentFrame ==
    /\ nFrames < MaxConcurrentFrames
    /\ \E f \in Frames : ReceiveFrame(f)

\* add_probe takes the lock: self.target_state.lock().unwrap()
RestoreLock ==
    /\ status = "running"
    /\ mpc = "restore"
    /\ lock = <<>>
    /\ lock' = <<"main">>
    /\ mpc' = "restore_locked"
    /\ UNCHANGED <<status, targets, nodes, data, slot, snap, ops, nodes0, lastFrame, nFrames, removed>>
    /\ UNCHANGED <<wvars, svars, homie, fvars, cb, dev, updOrder, cmdOrder>>

\* Mutant: the guard of the lock lives to the end of add_probe.
RestoreClone_KeepsLock ==
    /\ status = "running"
    /\ mpc = "restore_locked"
    /\ targets' = target(targets, slot)
    /\ snap' = targets'[slot]
    /\ lock' = lock
    /\ mpc' = "set_target"
    /\ UNCHANGED <<status, nodes, data, slot, ops, nodes0, lastFrame, nFrames, removed>>
    /\ UNCHANGED <<wvars, svars, homie, fvars, cb, dev, updOrder, cmdOrder>>

\* add_probe clones the probe's Target; the guard, a temporary of the
\* statement, is dropped at its end.
RestoreClone ==
    /\ status = "running"
    /\ mpc = "restore_locked"
    /\ targets' = target(targets, slot)
    /\ snap' = targets'[slot]
    /\ lock' = <<>>
    /\ mpc' = "set_target"
    /\ UNCHANGED <<status, nodes, data, slot, ops, nodes0, lastFrame, nFrames, removed>>
    /\ UNCHANGED <<wvars, svars, homie, fvars, cb, dev, updOrder, cmdOrder>>

\* set_target(&self.device, probe_index, &target) succeeds: the device has
\* taken the command built from the clone.
RestoreCommandOk ==
    /\ status = "running"
    /\ mpc = "set_target"
    /\ ops' = Append(ops, <<"device", set_target(slot, snap)>>)
    /\ dev' = [dev EXCEPT ![slot] = set_target(slot, snap)]
    /\ mpc' = "pub_mode"
    /\ UNCHANGED <<status, targets, nodes, data, slot, snap, nodes0, lastFrame, nFrames, removed>>
    /\ UNCHANGED <<wvars, svars, homie, fvars, lock, cb, updOrder, cmdOrder>>

NextConcurrent ==
    \/ ConcurrentWrite
    \/ \E i \in Callbacks : CallbackUpdate(i)
    \/ \E i \in Callbacks : CallbackCommandOk(i)
    \/ \E i \in Callbacks : CallbackCommandErr(i)
    \/ ConcurrentFrame
    \/ AddNode
    \/ RestoreLock
    \/ RestoreClone
    \/ RestoreCommandOk
    \/ SetTargetErr
    \/ PublishMode
    \/ PublishMin
    \/ PublishMax
    \/ PublishTemperature
    \/ RemoveNode
    \/ SkipSlot
    \/ HomieOpErr
    \/ HomieTerminated

SpecConcurrent == Init /\ [][NextConcurrent]_vars

\* ------------------------------------------------- main.rs: run_system
Devices == 1..MaxDevices
SessionVars == <<targets, mvars, wvars, svars, homie, cvars>>

\* start_discovery or find_devices fails.
DiscoveryErr ==
    /\ proc = "running"
    /\ fpc = "discovery"
    /\ fpc' = "err"
    /\ ferr' = Some(<<"discovery">>)
    /\ UNCHANGED <<devices, fdev, sess, connected, spawned, proc>>
    /\ UNCHANGED SessionVars

\* Mutant: with no device found the coordinator goes on to join no task.
DiscoverNone_Proceeds ==
    /\ proc = "running"
    /\ fpc = "discovery"
    /\ devices' = 0
    /\ fpc' = "join"
    /\ UNCHANGED <<fdev, sess, ferr, connected, spawned, proc>>
    /\ UNCHANGED SessionVars

\* find_devices returns no device: bail!("No devices found")
DiscoverNone ==
    /\ proc = "running"
    /\ fpc = "discovery"
    /\ devices' = 0
    /\ fpc' = "err"
    /\ ferr' = Some(<<"no_devices">>)
    /\ UNCHANGED <<fdev, sess, connected, spawned, proc>>
    /\ UNCHANGED SessionVars

\* find_devices returns n devices, n > 0: the for loop starts.
Discover(n) ==
    /\ proc = "running"
    /\ fpc = "discovery"
    /\ n > 0
    /\ devices' = n
    /\ fdev' = 1
    /\ fpc' = "connect"
    /\ UNCHANGED <<sess, ferr, connected, spawned, proc>>
    /\ UNCHANGED SessionVars

\* BBQ::connect succeeds for the device of the loop: its session is spawned
\* and the loop moves on, to try_join_all after the last device.
ConnectOk ==
    /\ proc = "running"
    /\ fpc = "connect"
    /\ connected' = connected \cup {fdev}
    /\ spawned' = Append(spawned, fdev)
    /\ sess' = [sess EXCEPT ![fdev] = "running"]
    /\ IF fdev < devices
       THEN fdev' = fdev + 1 /\ fpc' = fpc
       ELSE fdev' = fdev /\ fpc' = "join"
    /\ UNCHANGED <<devices, ferr, proc>>
    /\ UNCHANGED SessionVars

\* Mutant: a device that cannot be connected is skipped.
ConnectErr_Continues ==
    /\ proc = "running"
    /\ fpc = "connect"
    /\ connected' = connected \cup {fdev}
    /\ ferr' = Some(<<"connect", fdev>>)
    /\ UNCHANGED spawned
    /\ IF fdev < devices
       THEN fdev' = fdev + 1 /\ fpc' = fpc
       ELSE fdev' = fdev /\ fpc' = "join"
    /\ UNCHANGED <<devices, sess, proc>>
    /\ UNCHANGED SessionVars

\* BBQ::connect fails (connect, BBQDevice::new or authenticate): the ?
\* operator leaves the for loop and run_system with the error.
ConnectErr ==
    /\ proc = "running"
    /\ fpc = "connect"
    /\ connected' = connected \cup {fdev}
    /\ ferr' = Some(<<"connect", fdev>>)
    /\ UNCHANGED spawned
    /\ fpc' = "err"
    /\ UNCHANGED <<devices, fdev, sess, proc>>
    /\ UNCHANGED SessionVars

\* The task of a session ends: run returns Ok(()), run returns an error, or
\* run panics.
SessionEnds(d, outcome) ==
    /\ proc = "running"
    /\ sess[d] = "running"
    /\ sess' = [sess EXCEPT ![d] = outcome]
    /\ UNCHANGED <<fpc, devices, fdev, ferr, connected, spawned, proc>>
    /\ UNCHANGED SessionVars
SessionOk == \E d \in Devices : SessionEnds(d, "ok")
SessionErr == \E d \in Devices : SessionEnds(d, "err")
SessionPanic == \E d \in Devices : SessionEnds(d, "panic")

\* try_join_all(join_handles): every JoinHandle has resolved to Ok(output),
\* the output being the Result run returned; the outputs are dropped.
JoinOk ==
    /\ proc = "running"
    /\ fpc = "join"
    /\ \A d \in 1..devices : sess[d] \in {"ok", "err"}
    /\ fpc' = "ok"
    /\ UNCHANGED <<devices, fdev, sess, ferr, connected, spawned, proc>>
    /\ UNCHANGED SessionVars

\* try_join_all(join_handles): a JoinHandle resolves to Err(JoinError), its
\* task has panicked; the ? operator returns it without awaiting the rest.
JoinErr ==
    /\ proc = "running"
    /\ fpc = "join"
    /\ \E d \in 1..devices :
          /\ sess[d] = "panic"
          /\ ferr' = Some(<<"join", d>>)
    /\ fpc' = "err"
    /\ UNCHANGED <<devices, fdev, sess, connected, spawned, proc>>
    /\ UNCHANGED SessionVars

\* main: try_join! yields the error of run_system, main returns it and the
\* runtime drops the tasks still running.
MainErr ==
    /\ proc = "running"
    /\ fpc = "err"
    /\ proc' = "exit_err"
    /\ sess' = [d \in Devices |-> IF sess[d] = "running" THEN "aborted" ELSE sess[d]]
    /\ UNCHANGED <<fpc, devices, fdev, ferr, connected, spawned>>
    /\ UNCHANGED SessionVars

\* main: dbus_handle resolves, the connection to D-Bus is lost.
DbusLost ==
    /\ proc = "running"
    /\ proc' = "exit_err"
    /\ sess' = [d \in Devices |-> IF sess[d] = "running" THEN "aborted" ELSE sess[d]]
    /\ UNCHANGED <<fpc, devices, fdev, ferr, connected, spawned>>
    /\ UNCHANGED SessionVars

NextFleet ==
    \/ DiscoveryErr
    \/ DiscoverNone
    \/ \E n \in Devices : Discover(n)
    \/ ConnectOk
    \/ ConnectErr
    \/ SessionOk
    \/ SessionErr
    \/ SessionPanic
    \/ JoinOk
    \/ JoinErr
    \/ MainErr
    \/ DbusLost

\* The coordinator and the tasks of the sessions it spawns; what a session
\* does while it runs is left to the other specifications.
SpecFleet == Init /\ [][NextFleet]_vars

Next ==
    \/ TargetWrite
    \/ UpdateCommandOk
    \/ UpdateCommandErr
    \/ \E f \in Frames : ReceiveFrame(f)
    \/ AddNode
    \/ RestoreTarget
    \/ SetTargetOk
    \/ SetTargetErr
    \/ PublishMode
    \/ PublishMin
    \/ PublishMax
    \/ PublishTemperature
    \/ RemoveNode
    \/ SkipSlot
    \/ HomieOpErr
    \/ HomieTerminated

Spec == Init /\ [][Next]_vars

\* The update callback alone, with writes drawn from every input of the
\* model, in a session whose device streams deliver no event.
NextUpdate ==
    \/ AnyWrite
    \/ UpdateCommandOk
    \/ UpdateCommandErr
    \/ HomieTerminated

SpecUpdate == Init /\ [][NextUpdate]_vars

\* The setting results alone, drawn from every result of the model, in a
\* session that receives no telemetry frame and no remote write.
NextBattery ==
    \/ AnyResult
    \/ TakeResult
    \/ PublishVoltage
    \/ PublishPercentage
    \/ PublishAlarm
    \/ SettingResultsEnd
    \/ HomieOpErr
    \/ HomieTerminated

SpecBattery == Init /\ [][NextBattery]_vars

\* The session with everything that reaches it: a remote write, telemetry
\* frames and setting results.
StoreWrite ==
    /\ nWrites < MaxStoreWrites
    /\ \E w \in TargetWrites : HandleUpdate(w[1], w[2], w[3])

NextStore ==
    \/ StoreWrite
    \/ UpdateCommandOk
    \/ UpdateCommandErr
    \/ ConcurrentFrame
    \/ AddNode
    \/ RestoreTarget
    \/ SetTargetOk
    \/ SetTargetErr
    \/ PublishMode
    \/ PublishMin
    \/ PublishMax
    \/ PublishTemperature
    \/ RemoveNode
    \/ SkipSlot
    \/ SessionResult
    \/ TakeResult
    \/ PublishVoltage
    \/ PublishPercentage
    \/ PublishAlarm
    \/ SettingResultsEnd
    \/ HomieOpErr
    \/ HomieTerminated

SpecStore == Init /\ [][NextStore]_vars

\* The event loop with its two device streams: the device sends frames and
\* setting results, and ends either stream, while the loop works on an
\* earlier event; no remote write arrives.
NextLoop ==
    \/ \E f \in Frames : SendFrame(f)
    \/ TakeFrame
    \/ RealTimeEnds
    \/ SessionResult
    \/ TakeResult
    \/ PublishVoltage
    \/ PublishPercentage
    \/ PublishAlarm
    \/ SettingResultsEnd
    \/ AddNode
    \/ RestoreTarget
    \/ SetTargetOk
    \/ SetTargetErr
    \/ PublishMode
    \/ PublishMin
    \/ PublishMax
    \/ PublishTemperature
    \/ RemoveNode
    \/ SkipSlot
    \/ HomieOpErr
    \/ HomieTerminated

SpecLoop == Init /\ [][NextLoop]_vars

\* ================================================================ claims
Present(f, p) == IsSome(f[p + 1])
Temperature(f, p) == Unwrap(f[p + 1])

\* The operations of ops that concern probe p, in order.
OpsFor(p) ==
    SelectSeq(ops, LAMBDA o :
        IF o[1] = "device" THEN o[2][2] = p ELSE o[2] = ProbeNodeId(p))

\* C1: whenever the event loop has processed a frame completely, the node
\* probe<p> exists if and only if that frame had a reading for slot p.
C1_NodeIffLastReading ==
    (mpc = "select" /\ IsSome(lastFrame)) =>
        \A p \in Slots :
            (ProbeNodeId(p) \in nodes) <=> Present(Unwrap(lastFrame), p)

\* A node that existed was removed by the last frame, another one exists.
C1_Witness ==
    /\ mpc = "select"
    /\ nFrames >= 2
    /\ IsSome(lastFrame)
    /\ \E p, q \in Slots :
        /\ ProbeNodeId(p) \in nodes0 /\ ProbeNodeId(p) \notin nodes
        /\ ProbeNodeId(q) \in nodes

\* The last five operations before the temperature of an added node: the
\* add, the device command for the cloned target, its mode, minimum, maximum.
C2_RestoreInv ==
    mpc = "pub_temp" =>
        LET n == Len(ops)
            expected ==
                << <<"add_node", NodeId>>,
                   <<"device",
                     IF snap.mode = "Range"
                     THEN <<"set_target_range", slot, snap.temperature_min, snap.temperature_max>>
                     ELSE IF snap.mode = "Single"
                     THEN <<"set_target_temp", slot, snap.temperature_max>>
                     ELSE <<"remove_target", slot>> >>,
                   <<"publish", NodeId, PROPERTY_ID_TARGET_MODE,
                     IF snap.mode = "Range" THEN TARGET_MODE_RANGE
                     ELSE IF snap.mode = "Single" THEN TARGET_MODE_SINGLE
                     ELSE TARGET_MODE_NONE>>,
                   <<"publish", NodeId, PROPERTY_ID_TARGET_TEMPERATURE_MIN, snap.temperature_min>>,
                   <<"publish", NodeId, PROPERTY_ID_TARGET_TEMPERATURE_MAX, snap.temperature_max>> >>
        IN  /\ n >= 5
            /\ SubSeq(ops, n - 4, n) = expected

\* The clone is the entry the store holds, and the store keeps it.
C2_RestoreStep ==
    (mpc = "restore" /\ mpc' = "set_target" /\ slot \in DOMAIN targets) =>
        (snap' = targets[slot] /\ targets' = targets)

\* C2: when the temperature of a (re-)created probe node is about to be
\* published, the node has been added, the device command for the cloned
\* target has been issued and the target's mode, minimum and maximum have
\* been published, in this order; and the cloned target is the entry the
\* Target Store held when it was read (Range, 10, 20 after those writes),
\* which the read leaves as it was.
C2_RestoreBeforeTemperature == []C2_RestoreInv /\ [][C2_RestoreStep]_vars

\* Probe p was written to Range, 10, 20, its node was removed and has been
\* added again: Range, 10, 20 are published, the temperature comes next.
C2_Witness ==
    /\ mpc = "pub_temp"
    /\ NodeId \in removed
    /\ targets[slot] = [mode |-> "Range", temperature_min |-> 10, temperature_max |-> 20]
    /\ snap = targets[slot]
    /\ Len(ops) >= 5
    /\ ops[Len(ops) - 3] = <<"device", <<"set_target_range", slot, 10, 20>> >>
    /\ ops[Len(ops) - 2] = <<"publish", NodeId, PROPERTY_ID_TARGET_MODE, TARGET_MODE_RANGE>>

\* The number of operations a slot of frame f causes, given the nodes before.
ExpectedOps(f, before, p) ==
    IF Present(f, p) /\ ProbeNodeId(p) \notin before THEN 6
    ELSE IF Present(f, p) THEN 1
    ELSE IF ProbeNodeId(p) \in before THEN 1
    ELSE 0

\* The operations of slot p are exactly the ones its case asks for.
C3_SlotOps(f, before, p) ==
    LET o == OpsFor(p)
        id == ProbeNodeId(p)
    IN  /\ Len(o) = ExpectedOps(f, before, p)
        /\ (Present(f, p) /\ id \notin before) =>
                /\ o[1] = <<"add_node", id>>
                /\ o[2][1] = "device"
                /\ o[3][1] = "publish" /\ o[3][3] = PROPERTY_ID_TARGET_MODE
                /\ o[4][1] = "publish" /\ o[4][3] = PROPERTY_ID_TARGET_TEMPERATURE_MIN
                /\ o[5][1] = "publish" /\ o[5][3] = PROPERTY_ID_TARGET_TEMPERATURE_MAX
                /\ o[6] = <<"publish", id, PROPERTY_ID_TEMPERATURE, Temperature(f, p)>>
        /\ (Present(f, p) /\ id \in before) =>
                o = << <<"publish", id, PROPERTY_ID_TEMPERATURE, Temperature(f, p)>> >>
        /\ (~Present(f, p) /\ id \in before) => o = << <<"remove_node", id>> >>

RECURSIVE ConcatOps(_)
ConcatOps(n) == IF n = 0 THEN <<>> ELSE ConcatOps(n - 1) \o OpsFor(n - 1)

\* C3: the operations of a processed frame are those of its slots in
\* ascending order: an add with its restore and then the temperature for a
\* reading without a node, the temperature alone for a reading with a node,
\* one remove for a node without a reading, nothing otherwise; so a slot has
\* at most one add or one remove, and its add precedes its temperature.
C3_FrameOps ==
    (mpc = "select" /\ IsSome(lastFrame)) =>
        /\ \A p \in Slots : C3_SlotOps(Unwrap(lastFrame), nodes0, p)
        /\ ops = ConcatOps(NumSlots)

\* The frame [reading, absent] processed with only probe1's node present.
C3_Witness ==
    /\ mpc = "select"
    /\ IsSome(lastFrame)
    /\ Present(Unwrap(lastFrame), 0) /\ ~Present(Unwrap(lastFrame), 1)
    /\ ProbeNodeId(0) \notin nodes0 /\ ProbeNodeId(1) \in nodes0
    /\ Len(SelectSeq(ops, LAMBDA o : o[1] = "add_node")) = 1
    /\ Len(SelectSeq(ops, LAMBDA o : o[1] = "remove_node")) = 1
    /\ ops[1] = <<"add_node", ProbeNodeId(0)>>
    /\ ops[6] = <<"publish", ProbeNodeId(0), PROPERTY_ID_TEMPERATURE, 23>>
    /\ ops[7] = <<"remove_node", ProbeNodeId(1)>>

\* ---------------------------------------------------------- remote writes
Returned == wpc = "done"
WIndex == Unwrap(probe_id_to_index(wnode))
TargetProperties ==
    {PROPERTY_ID_TARGET_TEMPERATURE_MIN, PROPERTY_ID_TARGET_TEMPERATURE_MAX,
     PROPERTY_ID_TARGET_MODE}
TargetModeLabels == {TARGET_MODE_NONE, TARGET_MODE_SINGLE, TARGET_MODE_RANGE}
IsProbeNode(node_id) == IsSome(probe_id_to_index(node_id))

\* C4: a returned write to settings/unit with one of the two unit labels
\* has sent the set-unit command for that unit and, when the command
\* succeeded, returned the written value; with any other value it has sent
\* no command and returned nothing.
C4_UnitWrite ==
    (Returned /\ wnode = NODE_ID_SETTINGS /\ wprop = PROPERTY_ID_DISPLAY_UNIT) =>
        /\ wvalue = DISPLAY_UNIT_CELCIUS =>
                /\ wcmds = << <<"set_temperature_unit", "Celcius">> >>
                /\ wres = "ok" => wecho = Some(wvalue)
        /\ wvalue = DISPLAY_UNIT_FAHRENHEIT =>
                /\ wcmds = << <<"set_temperature_unit", "Fahrenheit">> >>
                /\ wres = "ok" => wecho = Some(wvalue)
        /\ wvalue \notin {DISPLAY_UNIT_CELCIUS, DISPLAY_UNIT_FAHRENHEIT} =>
                /\ wcmds = <<>>
                /\ wecho = None

C4_Witness ==
    /\ Returned /\ wnode = NODE_ID_SETTINGS /\ wprop = PROPERTY_ID_DISPLAY_UNIT
    /\ wvalue = DISPLAY_UNIT_FAHRENHEIT
    /\ wcmds = << <<"set_temperature_unit", "Fahrenheit">> >>
    /\ wecho = Some(DISPLAY_UNIT_FAHRENHEIT)

\* C5: a returned write of true to settings/alarm has sent no command and
\* returned nothing; a returned write of false has sent the silence-alarm
\* command and, when the command succeeded, returned false.
C5_AlarmWrite ==
    (Returned /\ wnode = NODE_ID_SETTINGS /\ wprop = PROPERTY_ID_ALARM) =>
        /\ wvalue = STR_TRUE => (wcmds = <<>> /\ wecho = None)
        /\ wvalue = STR_FALSE =>
                /\ wcmds = << <<"silence_alarm">> >>
                /\ wres = "ok" => wecho = Some(STR_FALSE)

\* The second write of a session, with targets already stored, silences.
C5_Witness ==
    /\ Returned /\ wnode = NODE_ID_SETTINGS /\ wprop = PROPERTY_ID_ALARM
    /\ wvalue = STR_FALSE
    /\ wcmds = << <<"silence_alarm">> >>
    /\ wecho = Some(STR_FALSE)
    /\ nWrites = 2

\* settings/unit, settings/alarm, probe<N>/target_min, target_max, mode
KnownPattern(node_id, property_id) ==
    \/ node_id = NODE_ID_SETTINGS
            /\ property_id \in {PROPERTY_ID_DISPLAY_UNIT, PROPERTY_ID_ALARM}
    \/ IsProbeNode(node_id) /\ property_id \in TargetProperties

C6_UnknownInv ==
    (wpc # "idle" /\ ~KnownPattern(wnode, wprop)) =>
        (Returned /\ wcmds = <<>> /\ wecho = None /\ wres = "none")

C6_UpdateStep ==
    (wpc' # wpc \/ nWrites' # nWrites) => status' = status

\* C6: a write whose node id and property id match no known pattern returns
\* at once with no echo and no device command, and no step of the update
\* callback changes the status of the session.
C6_UnknownWriteNoOp == []C6_UnknownInv /\ [][C6_UpdateStep]_vars

C6_Witness ==
    /\ Returned /\ ~KnownPattern(wnode, wprop)
    /\ IsProbeNode(wnode)
    /\ status = "running"
    /\ wecho = None

\* A write to a probe's target that passed validation.
ValidTargetWrite(node_id, property_id, value) ==
    /\ IsProbeNode(node_id)
    /\ \/ property_id = PROPERTY_ID_TARGET_TEMPERATURE_MIN /\ IsSome(ParseF32(value))
       \/ property_id = PROPERTY_ID_TARGET_TEMPERATURE_MAX /\ IsSome(ParseF32(value))
       \/ property_id = PROPERTY_ID_TARGET_MODE /\ value \in TargetModeLabels

ValidWrite(node_id, property_id, value) ==
    \/ /\ node_id = NODE_ID_SETTINGS /\ property_id = PROPERTY_ID_DISPLAY_UNIT
       /\ value \in {DISPLAY_UNIT_CELCIUS, DISPLAY_UNIT_FAHRENHEIT}
    \/ /\ node_id = NODE_ID_SETTINGS /\ property_id = PROPERTY_ID_ALARM
       /\ value = STR_FALSE
    \/ ValidTargetWrite(node_id, property_id, value)

\* C7: a returned valid write to a probe's target has issued exactly the
\* command that the mode of the probe's Target Store entry asks for:
\* remove-target for None, set-target with temperature_max for Single,
\* set-range with temperature_min and temperature_max for Range.
C7_CommandMatchesMode ==
    (Returned /\ ValidTargetWrite(wnode, wprop, wvalue)) =>
        LET entry == targets[WIndex]
        IN  /\ entry.mode = "None" => wcmds = << <<"remove_target", WIndex>> >>
            /\ entry.mode = "Single" =>
                    wcmds = << <<"set_target_temp", WIndex, entry.temperature_max>> >>
            /\ entry.mode = "Range" =>
                    wcmds = << <<"set_target_range", WIndex,
                                 entry.temperature_min, entry.temperature_max>> >>

\* A write of target_max to a probe in mode Single with a minimum set.
C7_Witness ==
    /\ Returned /\ ValidTargetWrite(wnode, wprop, wvalue)
    /\ wprop = PROPERTY_ID_TARGET_TEMPERATURE_MAX
    /\ targets[WIndex] = [mode |-> "Single", temperature_min |-> 10, temperature_max |-> 20]
    /\ wcmds = << <<"set_target_temp", WIndex, 20>> >>

\* C8: a write returns its value only if it is valid and its device command
\* succeeded, and then the value returned is the value written; an invalid
\* write and a write whose device command failed return nothing.
C8_EchoOnlyAccepted ==
    Returned =>
        /\ IsSome(wecho) =>
                /\ wecho = Some(wvalue)
                /\ ValidWrite(wnode, wprop, wvalue)
                /\ wres = "ok"
                /\ Len(wcmds) = 1
        /\ (~ValidWrite(wnode, wprop, wvalue) \/ wres = "err") => wecho = None
        /\ ~ValidWrite(wnode, wprop, wvalue) => wres = "none"

\* An invalid mode label written to a probe: nothing is returned.
C8_Witness ==
    /\ Returned
    /\ IsProbeNode(wnode) /\ wprop = PROPERTY_ID_TARGET_MODE
    /\ wvalue \notin TargetModeLabels
    /\ wecho = None /\ wcmds = <<>>

\* The temperature field of t that property_id names.
WrittenField(t, property_id) ==
    IF property_id = PROPERTY_ID_TARGET_TEMPERATURE_MIN THEN Some(t.temperature_min)
    ELSE IF property_id = PROPERTY_ID_TARGET_TEMPERATURE_MAX THEN Some(t.temperature_max)
    ELSE None

C9_FailedInv ==
    (Returned /\ ValidTargetWrite(wnode, wprop, wvalue) /\ wres = "err") =>
        /\ wecho = None
        /\ wprop \in {PROPERTY_ID_TARGET_TEMPERATURE_MIN, PROPERTY_ID_TARGET_TEMPERATURE_MAX} =>
                WrittenField(targets[WIndex], wprop) = ParseF32(wvalue)
        /\ wprop = PROPERTY_ID_TARGET_MODE =>
                wvalue = (IF targets[WIndex].mode = "None" THEN TARGET_MODE_NONE
                          ELSE IF targets[WIndex].mode = "Single" THEN TARGET_MODE_SINGLE
                          ELSE TARGET_MODE_RANGE)

C9_FailStep ==
    (wpc = "cmd" /\ wres' = "err") =>
        (targets' = targets /\ status' = status /\ wpc' = "done")

\* C9: a valid write to a probe's target whose device command failed
\* returns nothing and the Target Store entry holds the written value;
\* the failing command changes neither the store nor the session's status.
C9_FailedCommandKeepsStore == []C9_FailedInv /\ [][C9_FailStep]_vars

\* A failed write of mode Range: the store holds Range, the session runs.
C9_Witness ==
    /\ Returned /\ ValidTargetWrite(wnode, wprop, wvalue) /\ wres = "err"
    /\ wvalue = TARGET_MODE_RANGE
    /\ targets[WIndex].mode = "Range"
    /\ wecho = None
    /\ status = "running"

\* A repeated write has issued the commands of the write before it.
C10_RepeatInv ==
    (Returned /\ repeat) => wcmds = pcmds

C10_RepeatStep ==
    (nWrites' = nWrites + 1 /\ repeat') => targets' = targets

\* C10: a write that repeats the write before it (same node id, property id
\* and value) leaves the Target Store as it was and issues the command the
\* write before it issued.
C10_RepeatedWriteIdempotent == []C10_RepeatInv /\ [][C10_RepeatStep]_vars

C10_Witness ==
    /\ Returned /\ repeat
    /\ ValidTargetWrite(wnode, wprop, wvalue)
    /\ wcmds = pcmds
    /\ Len(wcmds) = 1
    /\ wcmds[1][1] = "set_target_range"

\* ------------------------------------------------------------------- C11
\* The session handles, or has handled, a battery-level result.
BatteryResult == result # <<>> /\ IsBatteryLevel(result)
VoltageOp == <<"publish", NODE_ID_BATTERY, PROPERTY_ID_VOLTAGE, result[2]>>
\* v is the integer part of current_voltage * 100 / max_voltage.
IsFloor(v, current_voltage, max_voltage) ==
    /\ v * max_voltage <= current_voltage * 100
    /\ current_voltage * 100 < (v + 1) * max_voltage

\* C11: a battery-level result with a positive maximum voltage is handled by
\* publishing the raw current voltage as battery/voltage and then, as
\* battery/percentage, the integer part of current_voltage * 100 /
\* max_voltage (truncated, never rounded up); nothing else is published.
C11_BatteryPercentage ==
    BatteryResult /\ status # "panic" =>
        /\ mpc = "pub_voltage" => sops = <<>>
        /\ mpc = "pub_percentage" => sops = <<VoltageOp>>
        /\ mpc = "select" =>
              /\ Len(sops) = 2
              /\ sops[1] = VoltageOp
              /\ sops[2][1] = "publish"
              /\ sops[2][2] = NODE_ID_BATTERY
              /\ sops[2][3] = PROPERTY_ID_PERCENTAGE
              /\ IsFloor(sops[2][4], result[2], result[3])

\* 310 of 400 has been published as 77.
C11_Witness ==
    /\ result = BatteryLevel(310, 400)
    /\ mpc = "select"
    /\ Len(sops) = 2
    /\ sops[2][4] = 77

\* ------------------------------------------------------------------- C12
\* C12: a running session ends with the Homie handle's result when that
\* handle resolves, and when either device stream has ended the select of
\* the event loop can take its complete branch and end the session with
\* success.
C12_ExitWhenStreamEnds ==
    /\ status = "running" /\ mpc = "select" => ENABLED HomieTerminated
    /\ status = "running" /\ mpc = "select"
            /\ (RealTimeTerminated \/ SettingResultsTerminated)
        => ENABLED StreamsComplete

\* ------------------------------------------------------------------- C13
\* C13: when the task of a session has ended with a fatal error, the
\* coordinator does not return success, and while it waits in try_join_all
\* it can return the error without waiting for the other sessions.
C13_FirstFailurePropagates ==
    /\ (\E d \in Devices : sess[d] = "err") => fpc # "ok"
    /\ fpc = "join" /\ (\E d \in 1..devices : sess[d] = "err")
        => ENABLED JoinErr

\* ------------------------------------------------------------------- C14
\* The statement as the specification has it: a connect failure of one
\* device leaves the coordinator going and no other session is aborted.
C14_ConnectFailureLocal ==
    \A d \in Devices :
        ferr = Some(<<"connect", d>>) =>
            /\ fpc # "err"
            /\ \A e \in Devices \ {d} : sess[e] # "aborted"

\* C14: a connect or authenticate failure of one device ends the whole
\* coordinator: run_system returns that error at once, the device and the
\* devices after it get no session and are never connected, the sessions
\* spawned before it are not awaited, and none of them is left running
\* once the process has exited with the error.
C14_ConnectFailureEndsCoordinator ==
    \A d \in Devices :
        ferr = Some(<<"connect", d>>) =>
            /\ fpc = "err"
            /\ \A e \in Devices : e >= d => sess[e] = "none"
            /\ \A e \in Devices : e > d => e \notin connected
            /\ \A e \in 1..(d - 1) : sess[e] # "none"
            /\ proc = "exit_err" => \A e \in Devices : sess[e] # "running"

\* The second of three devices failed to connect; the session of the first
\* was running and ended with the process, the third was never connected.
C14_Witness ==
    /\ devices = 3
    /\ ferr = Some(<<"connect", 2>>)
    /\ sess[1] = "aborted"
    /\ proc = "exit_err"

\* ------------------------------------------------------------------- C15
\* The devices 1..n in the order of the for loop.
UpTo(n) == [d \in 1..n |-> d]

\* C15: when find_devices returns no device run_system fails without having
\* connected to a device or spawned a session; otherwise it connects to the
\* devices in turn and spawns one session for each, never two for a
\* device: once it awaits try_join_all, or has returned from it, exactly
\* one session has been spawned for every discovered device.
C15_OneSessionPerDevice ==
    /\ fpc # "discovery" /\ devices = 0 =>
          /\ fpc = "err"
          /\ connected = {}
          /\ spawned = <<>>
          /\ \A d \in Devices : sess[d] = "none"
    /\ \E n \in 0..devices : spawned = UpTo(n)
    /\ \A d \in Devices : sess[d] # "none" <=> \E k \in 1..Len(spawned) : spawned[k] = d
    /\ (fpc \in {"join", "ok"} \/ (IsSome(ferr) /\ ferr[1][1] = "join")) =>
          spawned = UpTo(devices)

\* Three devices were found and the coordinator awaits their three sessions.
C15_Witness ==
    /\ devices = 3
    /\ fpc = "join"
    /\ spawned = <<1, 2, 3>>

\* No device was found and run_system has returned its error.
C15_WitnessNone ==
    /\ ferr = Some(<<"no_devices">>)
    /\ fpc = "err"

\* ------------------------------------------------------------------- C16
\* Every invocation has returned after a successful device command and no
\* frame has made the event loop command the device.
AllCallbacksSucceeded ==
    /\ \A i \in Callbacks : cb[i].pc = "done" /\ cb[i].res = "ok"
    /\ nFrames = 0

\* C16: when concurrent writes to the target of one probe have all
\* completed successfully, the device took their commands in the order in
\* which they updated the Target Store, and the last command it took is the
\* one of the stored entry.
C16_CommandsInStoreOrder ==
    AllCallbacksSucceeded =>
        /\ cmdOrder = updOrder
        /\ dev[0] = set_target(0, targets[0])

\* ------------------------------------------------------------------- C17
\* C17: the Mutex of the Target Store is held by an invocation of
\* handle_update only between its lock() and the end of the block that
\* updates and clones the entry, and by add_probe only while it clones the
\* entry: whoever has a device command in flight does not hold it, and the
\* command is built from the clone taken under the lock.
C17_NoLockDuringCommand ==
    /\ \A i \in Callbacks : lock = <<"cb", i>> <=> cb[i].pc = "locked"
    /\ lock = <<"main">> <=> mpc = "restore_locked"
    /\ \A i \in Callbacks : cb[i].pc = "cmd" => lock # <<"cb", i>>
    /\ mpc = "set_target" => lock # <<"main">>
    /\ lock \in {<<>>, <<"main">>} \cup {<<"cb", i>> : i \in Callbacks}

\* The command of one invocation is in flight while another invocation
\* holds the lock, and add_probe waits for the device with the lock free
\* for others.
C17_Witness ==
    /\ cb[1].pc = "cmd"
    /\ lock = <<"cb", 2>>
    /\ mpc = "set_target"

\* ------------------------------------------------------------------- C18
\* The frames taken so far followed by the frames still in the stream are
\* the frames the device sent: none is skipped, repeated or moved. A loop
\* that is back at its select has processed the last frame it took to the
\* end, and a loop at work is working on that frame.
C18_OrderInv ==
    /\ rtTaken \o rtQueue = rtSent
    /\ mpc = "select" =>
          lastFrame = IF rtTaken = <<>> THEN None ELSE Some(rtTaken[Len(rtTaken)])
    /\ mpc \in {"slot", "restore", "set_target", "pub_mode", "pub_min", "pub_max",
                "pub_temp"} =>
          rtTaken # <<>> /\ data = rtTaken[Len(rtTaken)]

\* The step takes an event from one of the two device streams.
TakesEvent == rtTaken' # rtTaken \/ Len(srQueue') < Len(srQueue)

\* An event is taken only by a loop at its select, with every operation of
\* the result handled before published, and it is the oldest of its stream.
C18_TakeStep ==
    TakesEvent =>
        /\ mpc = "select"
        /\ BatteryResult /\ result[3] # 0 => Len(sops) = 2
        /\ result = SilencePressed => Len(sops) = 1
        /\ rtTaken' # rtTaken =>
              rtTaken' = Append(rtTaken, Head(rtQueue)) /\ rtQueue' = Tail(rtQueue)
        /\ Len(srQueue') < Len(srQueue) =>
              result' = Head(srQueue) /\ srQueue' = Tail(srQueue)

\* C18: the event loop takes the next telemetry frame or setting result only
\* when it has reconciled the event before it completely, and it takes the
\* frames in the order the device sent them, each one once, none dropped or
\* merged.
C18_EventsInOrder == []C18_OrderInv /\ [][C18_TakeStep]_vars

\* Two different frames were sent while the loop was busy and have been
\* processed in that order, a battery result has been handled, and a third
\* frame waits in the stream.
C18_Witness ==
    /\ Len(rtTaken) = 2
    /\ rtTaken[1] # rtTaken[2]
    /\ lastFrame = Some(rtTaken[2])
    /\ mpc = "select"
    /\ rtQueue # <<>>
    /\ BatteryResult
    /\ Len(sops) = 2

\* ------------------------------------------------------------------- C19
\* The texts of the model that are numbers.
NumberTexts == {<<"1","0">>, <<"2","0">>}

\* The write is to a known property and its value does not parse: a unit
\* that is neither label, an alarm that is no boolean, a target_min or
\* target_max that is no number, a mode that is none of the three labels.
ParseFails(node_id, property_id, value) ==
    \/ /\ node_id = NODE_ID_SETTINGS /\ property_id = PROPERTY_ID_DISPLAY_UNIT
       /\ value \notin {DISPLAY_UNIT_CELCIUS, DISPLAY_UNIT_FAHRENHEIT}
    \/ /\ node_id = NODE_ID_SETTINGS /\ property_id = PROPERTY_ID_ALARM
       /\ value \notin {STR_TRUE, STR_FALSE}
    \/ /\ IsProbeNode(node_id)
       /\ property_id \in {PROPERTY_ID_TARGET_TEMPERATURE_MIN,
                           PROPERTY_ID_TARGET_TEMPERATURE_MAX}
       /\ value \notin NumberTexts
    \/ /\ IsProbeNode(node_id) /\ property_id = PROPERTY_ID_TARGET_MODE
       /\ value \notin TargetModeLabels

\* C19: a remote write whose value does not parse returns at once, before
\* any device command: it never waits for the device, and it has issued no
\* command of any kind when it has returned.
C19_InvalidWriteNoCommand ==
    (wpc # "idle" /\ ParseFails(wnode, wprop, wvalue)) =>
        /\ wpc = "done"
        /\ wcmds = <<>>
        /\ wres = "none"

\* target_min of a probe was written with a text that is no number.
C19_Witness ==
    /\ Returned
    /\ wnode = ProbeNodeId(0)
    /\ wprop = PROPERTY_ID_TARGET_TEMPERATURE_MIN
    /\ wvalue = <<"a","b","c">>
    /\ wcmds = <<>>

\* ------------------------------------------------------------------- C20
\* The step is the store update of a remote write.
WriteStep == nWrites' # nWrites

\* The entries of the store stay, and stay as they are unless a remote write
\* updates them; an entry that appears is the default one, with at most the
\* field a remote write has just written.
C20_StoreStep ==
    /\ DOMAIN targets \subseteq DOMAIN targets'
    /\ ~WriteStep => \A p \in DOMAIN targets : targets'[p] = targets[p]
    /\ \A p \in DOMAIN targets' \ DOMAIN targets :
          /\ ~WriteStep => targets'[p] = DefaultTarget
          /\ wprop' # PROPERTY_ID_TARGET_MODE => targets'[p].mode = "None"
          /\ wprop' # PROPERTY_ID_TARGET_TEMPERATURE_MIN => targets'[p].temperature_min = 0
          /\ wprop' # PROPERTY_ID_TARGET_TEMPERATURE_MAX => targets'[p].temperature_max = 0

\* C20: no step of the session removes an entry of the Target Store, and no
\* step other than a remote write (no telemetry frame, node removal or
\* setting result) changes the mode, minimum or maximum of an entry; the
\* probe indices of the store only grow, and an index accessed for the
\* first time gets the default entry (None, 0, 0).
C20_EntriesOutliveNodes == [][C20_StoreStep]_vars

\* The target of a probe was written, its node was added and removed again,
\* a battery result has been handled, and the written entry is still there.
C20_Witness ==
    /\ \E p \in Slots :
          /\ ProbeNodeId(p) \in removed
          /\ ProbeNodeId(p) \notin nodes
          /\ p \in DOMAIN targets
          /\ targets[p] # DefaultTarget
    /\ BatteryResult
    /\ Len(sops) = 2
    /\ mpc = "select"

\* ------------------------------------------------------------------- C21
\* The entry of probe p before the step, the default one when it had none.
EntryBefore(p) == IF p \in DOMAIN targets THEN targets[p] ELSE DefaultTarget

\* The store update of a write keeps every entry; in the entry of the probe
\* written to, only the field the property id names may differ from the
\* entry before; the entries of the other probes are as before.
C21_FieldStep ==
    WriteStep =>
        /\ DOMAIN targets \subseteq DOMAIN targets'
        /\ \A p \in DOMAIN targets' :
              IF IsProbeNode(wnode') /\ p = Unwrap(probe_id_to_index(wnode'))
              THEN /\ wprop' # PROPERTY_ID_TARGET_MODE =>
                          targets'[p].mode = EntryBefore(p).mode
                   /\ wprop' # PROPERTY_ID_TARGET_TEMPERATURE_MIN =>
                          targets'[p].temperature_min = EntryBefore(p).temperature_min
                   /\ wprop' # PROPERTY_ID_TARGET_TEMPERATURE_MAX =>
                          targets'[p].temperature_max = EntryBefore(p).temperature_max
              ELSE p \in DOMAIN targets /\ targets'[p] = targets[p]

\* C21: a remote write to one target field of a probe changes only that
\* field of that probe's entry: a written mode, None included, leaves the
\* two temperatures as they were, a written target_min or target_max leaves
\* the other two fields, and the entries of the other probes are untouched.
C21_WriteChangesOneField == [][C21_FieldStep]_vars

\* target_min was written first; the mode written afterwards found it in
\* the entry and the range command carries it.
C21_Witness ==
    /\ Returned
    /\ IsProbeNode(wnode)
    /\ wprop = PROPERTY_ID_TARGET_MODE
    /\ wvalue = TARGET_MODE_RANGE
    /\ targets[WIndex] = [mode |-> "Range", temperature_min |-> 10, temperature_max |-> 0]
    /\ wcmds = << <<"set_target_range", WIndex, 10, 0>> >>

\* ------------------------------------------------------------------- C22
\* C22: handling a battery-level result never fails in computing the
\* percentage, whatever the two voltages are, and the percentage published
\* is between 0 and 100.
C22_PercentageInRange ==
    BatteryResult =>
        /\ status # "panic"
        /\ \A k \in 1..Len(sops) :
              sops[k][3] = PROPERTY_ID_PERCENTAGE => sops[k][4] \in 0..100

\* ------------------------------------------------------------------- C23
\* The write is to a probe node and is rejected at validation: its property
\* id is none of the target properties, or its value does not parse.
RejectedProbeWrite(node_id, property_id, value) ==
    /\ IsProbeNode(node_id)
    /\ \/ property_id \notin TargetProperties
       \/ ParseFails(node_id, property_id, value)

\* The step of a rejected write to a probe keeps every entry of the store as
\* it is and adds at most the default entry of the probe written to; the
\* write has returned without waiting for the device.
C23_RejectStep ==
    (WriteStep /\ RejectedProbeWrite(wnode', wprop', wvalue')) =>
        /\ \A p \in DOMAIN targets : p \in DOMAIN targets' /\ targets'[p] = targets[p]
        /\ DOMAIN targets' = DOMAIN targets \cup {Unwrap(probe_id_to_index(wnode'))}
        /\ \A p \in DOMAIN targets' \ DOMAIN targets : targets'[p] = DefaultTarget
        /\ wpc' = "done"

\* C23: a remote write to a probe node that is rejected at validation (a
\* value that does not parse, an unknown property id) changes no field of
\* an entry the Target Store already has; all it may do to the store is
\* create the default entry of the probe it addresses.
C23_RejectedWriteKeepsEntries == [][C23_RejectStep]_vars

\* The second probe was written an unknown mode label after the first probe
\* had its minimum set: the first entry is as written, the second one is
\* the default entry.
C23_Witness ==
    /\ Returned
    /\ wnode = ProbeNodeId(1)
    /\ wprop = PROPERTY_ID_TARGET_MODE
    /\ wvalue = <<"a","b","c">>
    /\ DOMAIN targets = {0, 1}
    /\ targets[0] = [mode |-> "None", temperature_min |-> 10, temperature_max |-> 0]
    /\ targets[1] = DefaultTarget

\* ------------------------------------------------------------------- C24
\* add_probe has run to its end for the probe and the event loop is not in
\* a later run of it.
RestoreCompleted(p) ==
    /\ Published(ProbeNodeId(p), PROPERTY_ID_TARGET_TEMPERATURE_MAX) # {}
    /\ ~(slot = p /\ mpc \in {"restore", "restore_locked", "set_target",
                              "pub_mode", "pub_min", "pub_max"})

\* Every write that was made has returned after a successful device
\* command, at least one was made, and the writes commanded the device in
\* the order in which they updated the Target Store.
WritesCompleted ==
    /\ \A i \in Callbacks : cb[i].pc = "idle" \/ (cb[i].pc = "done" /\ cb[i].res = "ok")
    /\ \E i \in Callbacks : cb[i].pc = "done"
    /\ cmdOrder = updOrder

\* The value of a target property as the Target Store has it.
StoredValue(p, property_id) ==
    IF property_id = PROPERTY_ID_TARGET_MODE THEN TargetModeAsStr(targets[p].mode)
    ELSE IF property_id = PROPERTY_ID_TARGET_TEMPERATURE_MIN THEN targets[p].temperature_min
    ELSE targets[p].temperature_max

\* The value a completed write had published for its property.
EchoValue(i) ==
    IF cb[i].property_id = PROPERTY_ID_TARGET_MODE
    THEN cb[i].value ELSE Unwrap(ParseF32(cb[i].value))

\* The value last published for a target property of a probe whose restore
\* has completed: the one of the last write of the property, if the event
\* loop has not published the property since, and else the one add_probe
\* published last.
LastPublished(p, property_id) ==
    LET pubs == Published(ProbeNodeId(p), property_id)
        last == CHOOSE k \in pubs : \A j \in pubs : j <= k
        echoes == {k \in 1..Len(cmdOrder) :
                      /\ cb[cmdOrder[k]].node_id = ProbeNodeId(p)
                      /\ cb[cmdOrder[k]].property_id = property_id}
        echo == cmdOrder[CHOOSE k \in echoes : \A j \in echoes : j <= k]
    IN  IF echoes # {} /\ cb[echo].seen = Cardinality(pubs)
        THEN EchoValue(echo) ELSE ops[last][4]

\* C24: once the restore of a probe and the remote writes to its target
\* that ran concurrently with it have all completed successfully, the last
\* target command the device took for the probe is the one of the probe's
\* Target Store entry, and the mode, minimum and maximum last published on
\* the probe node are those of the entry.
C24_RestoreAgreesWithStore ==
    \A p \in Slots :
        (status = "running" /\ RestoreCompleted(p) /\ WritesCompleted) =>
            /\ dev[p] = set_target(p, targets[p])
            /\ \A property_id \in TargetProperties :
                  LastPublished(p, property_id) = StoredValue(p, property_id)

\* ------------------------------------------------------------------- C25
\* The session ended in error at the device command of add_probe.
RestoreFailed ==
    status = "error" /\ mpc = "set_target"

\* The last operations are the addition of the probe's node and the device
\* command: nothing was published for the node since it was added.
C25_FailedRestoreInv ==
    RestoreFailed =>
        /\ NodeId \in nodes
        /\ Len(ops) >= 2
        /\ ops[Len(ops) - 1] = <<"add_node", NodeId>>
        /\ ops[Len(ops)] = <<"device", set_target(slot, snap)>>

\* The device command of add_probe has two outcomes: the target properties
\* are published next, or the session ends in error where it is. A device
\* command that fails in a remote write leaves the session as it is: the
\* write returns None.
C25_FailureStep ==
    /\ (mpc = "set_target" /\ ops' # ops) =>
           \/ status' = "running" /\ mpc' = "pub_mode"
           \/ status' = "error" /\ mpc' = mpc
    /\ (wpc = "cmd" /\ wres' = "err") =>
           /\ status' = status
           /\ mpc' = mpc
           /\ ops' = ops
           /\ wecho' = None

\* C25: a device command that fails in add_probe is not recovered: the
\* session ends with an error after the probe's node was added and before
\* any target property or temperature is published for it, whereas a device
\* command that fails in a remote write leaves the session running.
C25_RestoreFailureEndsSession ==
    []C25_FailedRestoreInv /\ [][C25_FailureStep]_vars

\* A remote write failed at the device and the session went on; later the
\* restore of a probe failed at the device and ended it.
C25_Witness ==
    /\ RestoreFailed
    /\ wpc = "done" /\ wres = "err"
    /\ ops[Len(ops)][1] = "device"
    /\ \A k \in 1..Len(ops) : ops[k][1] = "publish" => ops[k][2] # NodeId
====
